---- MODULE Spec2Model ----
(***************************************************************************)
(* COSE key object (src/src/cose_key.c, src/include/cose/key.h): the key   *)
(* structure, its four setters and the two header encoders that write      *)
(* label/value pairs into a nanocbor encoder.                              *)
(*                                                                         *)
(* Three specifications share the variables:                               *)
(*   SpecKey   the key object and its setters, over the full input sets;   *)
(*   Spec      setters plus whole (sequential) encoder calls on one map;   *)
(*   SpecConc  two callers encoding one key into their own maps, one       *)
(*             emission per step, setters only while no call is in flight. *)
(***************************************************************************)
EXTENDS Integers, Sequences, FiniteSets, TLC

(***************************************************************************)
(* Bounds of the model.                                                    *)
(***************************************************************************)
\* curve arguments are 0 .. MaxCurve: 0 is the zero value, 1..7 the named
\* curves, anything above is an unrecognised value
MaxCurve == 8
\* destination buffers have 0 .. MaxCap bytes
MaxCap == 4
\* encoder calls a caller makes on one map before it sets the map up afresh
MaxCalls == 1

(***************************************************************************)
(* Enumerations of cose_defines.h (RFC 8152 tables 21/22, RFC 8230) and    *)
(* the header labels (RFC 8152 table 2).                                   *)
(***************************************************************************)
COSE_KTY_NONE == 0
COSE_KTY_OCTET == 1
COSE_KTY_EC2 == 2
COSE_KTY_RSA == 3
COSE_KTY_SYMM == 4

COSE_EC_CURVE_P256 == 1
COSE_EC_CURVE_P384 == 2
COSE_EC_CURVE_P521 == 3
COSE_EC_CURVE_X25519 == 4
COSE_EC_CURVE_X448 == 5
COSE_EC_CURVE_ED25519 == 6
COSE_EC_CURVE_ED448 == 7

COSE_HDR_ALG == 1
COSE_HDR_KID == 4

\* the null pointer, and the value memset(.., 0, ..) leaves in every field
NULL == 0

(***************************************************************************)
(* Input sets.                                                             *)
(***************************************************************************)
Curves == 0 .. MaxCurve
\* PS256 (two-byte CBOR integer), ES256, the zero value
Algos == {-37, -7, 0}
\* pointer arguments: NULL or the caller's buffer 1
Ptrs == {NULL, 1}
\* the algorithms of the setter specification: ES256 and the zero value
KeyAlgos == {-7, 0}
\* caller memory behind the key identifier pointers 1 and 2
KidMem == << <<1>>, <<2, 3>> >>
KidPtrs == 0 .. Len(KidMem)
KidLens(p) == IF p = NULL THEN {0} ELSE 0 .. Len(KidMem[p])

\* the smaller input sets of the encoder specifications
EncCurves == {COSE_EC_CURVE_P256, COSE_EC_CURVE_ED25519}
EncPtrs == {1}
Threads == {1, 2}
ConcCurves == {COSE_EC_CURVE_P256}
ConcAlgos == {-37, -7}
ConcPtrs == {1}
ConcKids == {1}
ConcCaps == {MaxCap - 1, MaxCap}

VARIABLES key, enc, pc, pre, ret, last
vars == <<key, enc, pc, pre, ret, last>>

(***************************************************************************)
(* cose_key_t and the setters.                                             *)
(***************************************************************************)
cose_key_t == [kty : Int, algo : Int, crv : Int, kid : Int, kid_len : Int,
               x : Int, y : Int, d : Int, n : Int, e : Int]

\* an object no operation has touched yet
NoKey == [kty |-> 0, algo |-> 0, crv |-> 0, kid |-> 0, kid_len |-> 0,
          x |-> 0, y |-> 0, d |-> 0, n |-> 0, e |-> 0]

\* variant: a field-by-field reset that forgets the identifier
cose_key_init_keeps_kid(k) ==
    [k EXCEPT !.kty = COSE_KTY_NONE, !.algo = 0, !.crv = 0,
              !.x = NULL, !.y = NULL, !.d = NULL, !.n = NULL, !.e = NULL]
\* memset(key, 0, sizeof(cose_key_t))
cose_key_init(k) ==
    [kty |-> COSE_KTY_NONE, algo |-> 0, crv |-> 0, kid |-> NULL, kid_len |-> 0,
     x |-> NULL, y |-> NULL, d |-> NULL, n |-> NULL, e |-> NULL]

\* variant: the key type is not written
cose_key_set_keys_rsa_keeps_kty(k, algo, n, e) ==
    [k EXCEPT !.algo = algo, !.n = n, !.e = e]
\* variant: the curve key's fields are cleared
cose_key_set_keys_rsa_clears_curve(k, algo, n, e) ==
    [k EXCEPT !.kty = COSE_KTY_RSA, !.algo = algo, !.n = n, !.e = e,
              !.crv = 0, !.x = NULL, !.y = NULL, !.d = NULL]
cose_key_set_keys_rsa(k, algo, n, e) ==
    [k EXCEPT !.kty = COSE_KTY_RSA, !.algo = algo, !.n = n, !.e = e]

\* variant: the X448 case label is missing
kty_of_curve_x448_missing(curve) ==
    IF curve \in {COSE_EC_CURVE_P256, COSE_EC_CURVE_P384, COSE_EC_CURVE_P521}
    THEN COSE_KTY_EC2
    ELSE IF curve \in {COSE_EC_CURVE_X25519, COSE_EC_CURVE_ED25519,
                       COSE_EC_CURVE_ED448}
    THEN COSE_KTY_OCTET
    ELSE COSE_KTY_SYMM
\* the switch of cose_key_set_keys
kty_of_curve(curve) ==
    IF curve \in {COSE_EC_CURVE_P256, COSE_EC_CURVE_P384, COSE_EC_CURVE_P521}
    THEN COSE_KTY_EC2
    ELSE IF curve \in {COSE_EC_CURVE_X25519, COSE_EC_CURVE_X448,
                       COSE_EC_CURVE_ED25519, COSE_EC_CURVE_ED448}
    THEN COSE_KTY_OCTET
    ELSE COSE_KTY_SYMM

\* variant: an RSA key keeps its type
cose_key_set_keys_keeps_rsa(k, curve, algo, x, y, d) ==
    [k EXCEPT !.kty = IF k.kty = COSE_KTY_RSA THEN COSE_KTY_RSA
                      ELSE kty_of_curve(curve),
              !.crv = curve, !.algo = algo, !.x = x, !.y = y, !.d = d]
cose_key_set_keys(k, curve, algo, x, y, d) ==
    [k EXCEPT !.kty = kty_of_curve(curve), !.crv = curve, !.algo = algo,
              !.x = x, !.y = y, !.d = d]

\* variant: the key type is reset along with the identifier
cose_key_set_kid_resets_type(k, kid, len) ==
    [k EXCEPT !.kid = kid, !.kid_len = len, !.kty = COSE_KTY_NONE]
cose_key_set_kid(k, kid, len) ==
    [k EXCEPT !.kid = kid, !.kid_len = len]

(***************************************************************************)
(* The nanocbor encoder the header functions write through.  An encoder is *)
(* the destination buffer (buf, at most cap bytes) with two records of the *)
(* calls made on it: log, the item each call was asked to emit, and rcs,   *)
(* the result each call returned.                                          *)
(***************************************************************************)
NANOCBOR_ERR_END == -1

IntItem(v) == [t |-> "int", i |-> v, b |-> <<>>]
BstrItem(bytes) == [t |-> "bstr", i |-> 0, b |-> bytes]
MapItem(n) == [t |-> "map", i |-> n, b |-> <<>>]
BadItem == [t |-> "bad", i |-> 0, b |-> <<>>]

\* initial byte(s) of a data item: major type and argument (RFC 7049 2.1)
EncodeHead(major, arg) ==
    IF arg < 24 THEN <<major * 32 + arg>>
    ELSE IF arg < 256 THEN <<major * 32 + 24, arg>>
    ELSE <<major * 32 + 25, arg \div 256, arg % 256>>

EncodeInt(v) == IF v >= 0 THEN EncodeHead(0, v) ELSE EncodeHead(1, -1 - v)

\* the first len bytes behind a key identifier pointer
KidBytes(p, len) == IF p = NULL THEN <<>> ELSE SubSeq(KidMem[p], 1, len)

nanocbor_fits(m, n) == Len(m.buf) + n <= m.cap

nanocbor_encoder_init(cap) == [buf |-> <<>>, cap |-> cap, log |-> <<>>, rcs |-> <<>>]

nanocbor_emit(m, item, bytes) ==
    IF nanocbor_fits(m, Len(bytes))
    THEN [m EXCEPT !.buf = @ \o bytes, !.log = Append(@, item),
                   !.rcs = Append(@, Len(bytes))]
    ELSE [m EXCEPT !.log = Append(@, item), !.rcs = Append(@, NANOCBOR_ERR_END)]

nanocbor_fmt_map(m, n) == nanocbor_emit(m, MapItem(n), EncodeHead(5, n))

nanocbor_fmt_int(m, v) == nanocbor_emit(m, IntItem(v), EncodeInt(v))

\* the byte string header first; the bytes only when the header went in
nanocbor_put_bstr(m, p, len) ==
    LET head == EncodeHead(2, len)
        body == KidBytes(p, len)
        item == BstrItem(body)
    IN  IF ~nanocbor_fits(m, Len(head))
        THEN [m EXCEPT !.log = Append(@, item), !.rcs = Append(@, NANOCBOR_ERR_END)]
        ELSE IF ~nanocbor_fits(m, Len(head) + Len(body))
        THEN [m EXCEPT !.buf = @ \o head, !.log = Append(@, item),
                       !.rcs = Append(@, NANOCBOR_ERR_END)]
        ELSE [m EXCEPT !.buf = @ \o head \o body, !.log = Append(@, item),
                       !.rcs = Append(@, Len(body))]

\* the items a decoder reads back from the bytes of a buffer
RECURSIVE DecodeFrom(_, _)
DecodeFrom(b, i) ==
    IF i > Len(b) THEN <<>>
    ELSE LET major == b[i] \div 32
             info == b[i] % 32
             wide == info = 24
             arg == IF wide THEN (IF i + 1 <= Len(b) THEN b[i + 1] ELSE -1)
                    ELSE info
             next == IF wide THEN i + 2 ELSE i + 1
         IN  IF info > 24 \/ arg < 0 THEN <<BadItem>>
             ELSE IF major = 0 THEN <<IntItem(arg)>> \o DecodeFrom(b, next)
             ELSE IF major = 1 THEN <<IntItem(-1 - arg)>> \o DecodeFrom(b, next)
             ELSE IF major = 2
                  THEN IF next + arg - 1 > Len(b) THEN <<BadItem>>
                       ELSE <<BstrItem(SubSeq(b, next, next + arg - 1))>>
                            \o DecodeFrom(b, next + arg)
             ELSE IF major = 5 THEN <<MapItem(arg)>> \o DecodeFrom(b, next)
             ELSE <<BadItem>>
Decode(b) == DecodeFrom(b, 1)

(***************************************************************************)
(* The header encoders.                                                    *)
(***************************************************************************)
cose_key_protected_label(k, m) == nanocbor_fmt_int(m, COSE_HDR_ALG)
\* variant: the curve is written in place of the algorithm
cose_key_protected_value_writes_crv(k, m) == nanocbor_fmt_int(m, k.crv)
cose_key_protected_value(k, m) == nanocbor_fmt_int(m, k.algo)
cose_key_protected_to_map(k, m) ==
    cose_key_protected_value(k, cose_key_protected_label(k, m))

cose_key_unprotected_label(k, m) == nanocbor_fmt_int(m, COSE_HDR_KID)
\* variant: an empty identifier is left out
cose_key_unprotected_value_skips_empty(k, m) ==
    IF k.kid_len = 0 THEN m ELSE nanocbor_put_bstr(m, k.kid, k.kid_len)
cose_key_unprotected_value(k, m) == nanocbor_put_bstr(m, k.kid, k.kid_len)
cose_key_unprotected_to_map(k, m) ==
    cose_key_unprotected_value(k, cose_key_unprotected_label(k, m))

\* what a call hands back to its caller: both functions are void
NoReport == [reported |-> FALSE, code |-> 0]
\* variant: the encoder's failure is handed on, as key.h documents
cose_key_to_map_result_reports(m) ==
    IF m.rcs[Len(m.rcs)] < 0 \/ m.rcs[Len(m.rcs) - 1] < 0
    THEN [reported |-> TRUE, code |-> NANOCBOR_ERR_END]
    ELSE [reported |-> TRUE, code |-> 0]
cose_key_to_map_result(m) == NoReport

\* variant: the identifier is consumed by the read
cose_key_after_read_consumes_kid(k) == [k EXCEPT !.kid_len = 0]
\* the key once an encoder step has read it: both functions take a
\* const cose_key_t * and write through it nowhere
cose_key_after_read(k) == k

(***************************************************************************)
(* State.                                                                  *)
(*   key   the one cose_key_t the callers share                            *)
(*   enc   the encoder (destination map) of each caller                    *)
(*   pc    where each caller is inside an encoder call                     *)
(*   pre   the caller's encoder as it was when its current call began      *)
(*   ret   what the caller's last encoder call handed back                 *)
(*   last  the operation of the last step, with its arguments; for a       *)
(*         set_keys, was_rsa tells whether the key was RSA-typed before    *)
(*         it; for a whole encoder                                         *)
(*         call, prev is the operation that came before it                 *)
(***************************************************************************)
NoOp == [op |-> "none", t |-> 0, curve |-> 0, algo |-> 0, x |-> NULL, y |-> NULL,
         d |-> NULL, n |-> NULL, e |-> NULL, kid |-> NULL, len |-> 0,
         was_rsa |-> FALSE, prev |-> "none"]

AllIdle == \A t \in Threads : pc[t] = "idle"

\* a map is open once its header has been written; a caller makes at most
\* MaxCalls encoder calls on it
MapIsOpen(m) == Len(m.log) >= 1
CallsMade(m) == (Len(m.log) - 1) \div 2
MayCall(t) == pc[t] = "idle" /\ MapIsOpen(enc[t]) /\ CallsMade(enc[t]) < MaxCalls

Init ==
    /\ key = cose_key_init(NoKey)
    /\ enc = [t \in Threads |-> nanocbor_encoder_init(0)]
    /\ pc = [t \in Threads |-> "idle"]
    /\ pre = [t \in Threads |-> nanocbor_encoder_init(0)]
    /\ ret = [t \in Threads |-> NoReport]
    /\ last = NoOp

\* The key is not synchronised: its owner changes it only while no encoder
\* call is reading it.
KeyInit ==
    /\ AllIdle
    /\ key' = cose_key_init(key)
    /\ last' = [NoOp EXCEPT !.op = "init"]
    /\ UNCHANGED <<enc, pc, pre, ret>>

SetKeysRsa(A, P) ==
    \E algo \in A, n \in P, e \in P :
        /\ AllIdle
        /\ key' = cose_key_set_keys_rsa(key, algo, n, e)
        /\ last' = [NoOp EXCEPT !.op = "set_keys_rsa", !.algo = algo, !.n = n, !.e = e]
        /\ UNCHANGED <<enc, pc, pre, ret>>

SetKeys(C, A, P) ==
    \E curve \in C, algo \in A, x \in P, y \in P, d \in P :
        /\ AllIdle
        /\ key' = cose_key_set_keys(key, curve, algo, x, y, d)
        /\ last' = [NoOp EXCEPT !.op = "set_keys", !.curve = curve, !.algo = algo,
                                !.x = x, !.y = y, !.d = d,
                                !.was_rsa = (key.kty = COSE_KTY_RSA)]
        /\ UNCHANGED <<enc, pc, pre, ret>>

SetKid(K) ==
    \E kid \in K : \E len \in KidLens(kid) :
        /\ AllIdle
        /\ key' = cose_key_set_kid(key, kid, len)
        /\ last' = [NoOp EXCEPT !.op = "set_kid", !.kid = kid, !.len = len]
        /\ UNCHANGED <<enc, pc, pre, ret>>

\* the caller sets an encoder up over a buffer of cap bytes and opens a map
MapOpen(t, Caps) ==
    \E cap \in Caps :
        /\ pc[t] = "idle"
        /\ enc' = [enc EXCEPT ![t] = nanocbor_fmt_map(nanocbor_encoder_init(cap), 1)]
        /\ last' = [NoOp EXCEPT !.op = "map_open", !.t = t]
        /\ UNCHANGED <<key, pc, pre, ret>>

\* whole calls
ProtectedToMap(t) ==
    /\ MayCall(t)
    /\ pre' = [pre EXCEPT ![t] = enc[t]]
    /\ enc' = [enc EXCEPT ![t] = cose_key_protected_to_map(key, enc[t])]
    /\ ret' = [ret EXCEPT ![t] = cose_key_to_map_result(enc'[t])]
    /\ key' = cose_key_after_read(key)
    /\ last' = [NoOp EXCEPT !.op = "protected_to_map", !.t = t, !.prev = last.op]
    /\ UNCHANGED pc

UnprotectedToMap(t) ==
    /\ MayCall(t)
    /\ pre' = [pre EXCEPT ![t] = enc[t]]
    /\ enc' = [enc EXCEPT ![t] = cose_key_unprotected_to_map(key, enc[t])]
    /\ ret' = [ret EXCEPT ![t] = cose_key_to_map_result(enc'[t])]
    /\ key' = cose_key_after_read(key)
    /\ last' = [NoOp EXCEPT !.op = "unprotected_to_map", !.t = t, !.prev = last.op]
    /\ UNCHANGED pc

\* the same calls, one emission per step
ProtectedLabel(t) ==
    /\ MayCall(t)
    /\ pre' = [pre EXCEPT ![t] = enc[t]]
    /\ enc' = [enc EXCEPT ![t] = cose_key_protected_label(key, enc[t])]
    /\ pc' = [pc EXCEPT ![t] = "protected"]
    /\ last' = [NoOp EXCEPT !.op = "protected_label", !.t = t]
    /\ key' = cose_key_after_read(key)
    /\ UNCHANGED ret

ProtectedValue(t) ==
    /\ pc[t] = "protected"
    /\ enc' = [enc EXCEPT ![t] = cose_key_protected_value(key, enc[t])]
    /\ ret' = [ret EXCEPT ![t] = cose_key_to_map_result(enc'[t])]
    /\ pc' = [pc EXCEPT ![t] = "idle"]
    /\ last' = [NoOp EXCEPT !.op = "protected_to_map", !.t = t]
    /\ key' = cose_key_after_read(key)
    /\ UNCHANGED pre

UnprotectedLabel(t) ==
    /\ MayCall(t)
    /\ pre' = [pre EXCEPT ![t] = enc[t]]
    /\ enc' = [enc EXCEPT ![t] = cose_key_unprotected_label(key, enc[t])]
    /\ pc' = [pc EXCEPT ![t] = "unprotected"]
    /\ last' = [NoOp EXCEPT !.op = "unprotected_label", !.t = t]
    /\ key' = cose_key_after_read(key)
    /\ UNCHANGED ret

UnprotectedValue(t) ==
    /\ pc[t] = "unprotected"
    /\ enc' = [enc EXCEPT ![t] = cose_key_unprotected_value(key, enc[t])]
    /\ ret' = [ret EXCEPT ![t] = cose_key_to_map_result(enc'[t])]
    /\ pc' = [pc EXCEPT ![t] = "idle"]
    /\ last' = [NoOp EXCEPT !.op = "unprotected_to_map", !.t = t]
    /\ key' = cose_key_after_read(key)
    /\ UNCHANGED pre

\* the key object and its setters, over the full input sets
NextKey ==
    \/ KeyInit
    \/ SetKeysRsa(KeyAlgos, Ptrs)
    \/ SetKeys(Curves, KeyAlgos, Ptrs)
    \/ SetKid(KidPtrs)
SpecKey == Init /\ [][NextKey]_vars

\* setters and whole encoder calls of one caller
Next ==
    \/ KeyInit
    \/ SetKeysRsa(Algos, EncPtrs)
    \/ SetKeys(EncCurves, Algos, EncPtrs)
    \/ SetKid(KidPtrs)
    \/ MapOpen(1, 0 .. MaxCap)
    \/ ProtectedToMap(1)
    \/ UnprotectedToMap(1)
Spec == Init /\ [][Next]_vars

\* two callers, one emission per step
NextConc ==
    \/ SetKeys(ConcCurves, ConcAlgos, ConcPtrs)
    \/ SetKid(ConcKids)
    \/ \E t \in Threads :
        \/ MapOpen(t, ConcCaps)
        \/ ProtectedLabel(t)
        \/ ProtectedValue(t)
        \/ UnprotectedLabel(t)
        \/ UnprotectedValue(t)
SpecConc == Init /\ [][NextConc]_vars

(***************************************************************************)
(* Properties of the setters (SpecKey).                                    *)
(***************************************************************************)
\* the resolver table as the documentation gives it
TableKty(c) ==
    CASE c \in {COSE_EC_CURVE_P256, COSE_EC_CURVE_P384, COSE_EC_CURVE_P521} ->
            COSE_KTY_EC2
      [] c \in {COSE_EC_CURVE_X25519, COSE_EC_CURVE_X448, COSE_EC_CURVE_ED25519,
                COSE_EC_CURVE_ED448} -> COSE_KTY_OCTET
      [] OTHER -> COSE_KTY_SYMM

\* C1: after cose_key_set_keys(key, c, ...), from whatever key state, kty is
\* the table's value for c: EC2 for P-256/P-384/P-521, OKP for
\* X25519/X448/Ed25519/Ed448, SYMM for every other c (zero and unrecognised
\* values included); it is never RSA and never the none value.
C1_SetKeysResolvesKty ==
    last.op = "set_keys" =>
        /\ key.kty = TableKty(last.curve)
        /\ key.kty \in {COSE_KTY_EC2, COSE_KTY_OCTET, COSE_KTY_SYMM}
        /\ key.kty # COSE_KTY_RSA
        /\ key.kty # COSE_KTY_NONE

\* an unrecognised curve on a key that carries RSA material resolved to SYMM
C1_Witness ==
    /\ last.op = "set_keys"
    /\ last.curve = MaxCurve
    /\ last.was_rsa
    /\ key.kty = COSE_KTY_SYMM
    /\ key.n # NULL

\* C2: after cose_key_set_keys_rsa(key, algo, n, e), kty = RSA and algo, n, e
\* are the arguments of that call, whatever the key was before.
C2_SetKeysRsaYieldsRsa ==
    last.op = "set_keys_rsa" =>
        /\ key.kty = COSE_KTY_RSA
        /\ key.algo = last.algo
        /\ key.n = last.n
        /\ key.e = last.e

\* the RSA setter ran on a key that cose_key_set_keys had made an OKP key
C2_Witness ==
    /\ last.op = "set_keys_rsa"
    /\ key.kty = COSE_KTY_RSA
    /\ key.crv = COSE_EC_CURVE_X448
    /\ key.d # NULL
    /\ key.algo = -7
    /\ key.n # NULL

\* C9: cose_key_set_keys_rsa changes only kty, algo, n, e: crv, x, y, d, kid
\* and kid_len are after the call what they were before it.
C9_SetKeysRsaFrame ==
    [][last'.op = "set_keys_rsa" =>
            /\ key'.crv = key.crv
            /\ key'.x = key.x
            /\ key'.y = key.y
            /\ key'.d = key.d
            /\ key'.kid = key.kid
            /\ key'.kid_len = key.kid_len]_vars

\* an RSA-typed key that still carries the earlier curve key's values
C9_Witness ==
    /\ last.op = "set_keys_rsa"
    /\ key.kty = COSE_KTY_RSA
    /\ key.crv = COSE_EC_CURVE_P384
    /\ key.x # NULL
    /\ key.y # NULL
    /\ key.d # NULL
    /\ key.kid_len = 2

\* a fresh encoder over a full-size buffer with its map opened
OpenedMap == nanocbor_fmt_map(nanocbor_encoder_init(MaxCap), 1)

SameEncoding(k1, k2) ==
    /\ cose_key_protected_to_map(k1, OpenedMap) = cose_key_protected_to_map(k2, OpenedMap)
    /\ cose_key_unprotected_to_map(k1, OpenedMap) =
           cose_key_unprotected_to_map(k2, OpenedMap)

\* from the current key, the identifier setter before or after a key setter
\* gives the same key (every argument of the setter specification) and the
\* same encoder output (compared for P-256 keys and for RSA keys)
KidCommutes ==
    \A kid \in KidPtrs : \A len \in KidLens(kid) :
        /\ \A curve \in Curves, algo \in KeyAlgos, p \in Ptrs, q \in Ptrs :
               cose_key_set_keys(cose_key_set_kid(key, kid, len), curve, algo, p, q, p)
                   = cose_key_set_kid(cose_key_set_keys(key, curve, algo, p, q, p),
                                      kid, len)
        /\ \A algo \in KeyAlgos, n \in Ptrs, e \in Ptrs :
               cose_key_set_keys_rsa(cose_key_set_kid(key, kid, len), algo, n, e)
                   = cose_key_set_kid(cose_key_set_keys_rsa(key, algo, n, e), kid, len)
        /\ \A algo \in KeyAlgos :
               /\ SameEncoding(
                      cose_key_set_keys(cose_key_set_kid(key, kid, len),
                                        COSE_EC_CURVE_P256, algo, 1, 1, 1),
                      cose_key_set_kid(cose_key_set_keys(key, COSE_EC_CURVE_P256,
                                                         algo, 1, 1, 1), kid, len))
               /\ SameEncoding(
                      cose_key_set_keys_rsa(cose_key_set_kid(key, kid, len), algo, 1, 1),
                      cose_key_set_kid(cose_key_set_keys_rsa(key, algo, 1, 1), kid, len))

\* C10: cose_key_set_kid changes only kid and kid_len, the two key setters
\* change neither, and so the identifier setter commutes with both key
\* setters: either order gives the same key and the same encoder output.
C10_SetKidCommutes ==
    /\ []KidCommutes
    /\ [][/\ last'.op = "set_kid" =>
                 key' = [key EXCEPT !.kid = last'.kid, !.kid_len = last'.len]
          /\ last'.op \in {"set_keys", "set_keys_rsa"} =>
                 key'.kid = key.kid /\ key'.kid_len = key.kid_len]_vars

\* an identifier set on a key whose type a key setter had set
C10_Witness ==
    /\ last.op = "set_kid"
    /\ key.kty = COSE_KTY_EC2
    /\ key.kid = 2
    /\ key.kid_len = 2
    /\ key.x # NULL

(***************************************************************************)
(* Properties of the header encoders (Spec): caller 1 makes whole calls.   *)
(***************************************************************************)
IsPrefix(a, b) == Len(a) <= Len(b) /\ SubSeq(b, 1, Len(a)) = a

\* the encoder took every emission of the call that just ended
CallWritten(m) == m.rcs[Len(m.rcs) - 1] >= 0 /\ m.rcs[Len(m.rcs)] >= 0

\* the call that just ended handed the encoder exactly the items its, in
\* order, after the items the map held before; the bytes already in the
\* buffer stay, and once the encoder took both emissions a decoder reads
\* back the old items followed by the new ones
Appended(t, its) ==
    /\ enc[t].log = pre[t].log \o its
    /\ enc[t].cap = pre[t].cap
    /\ IsPrefix(pre[t].buf, enc[t].buf)
    /\ CallWritten(enc[t]) => Decode(enc[t].buf) = Decode(pre[t].buf) \o its

\* keys that agree with k on algo and differ in the other fields
OtherKeys(k) ==
    {[kty |-> ty, algo |-> k.algo, crv |-> c, kid |-> id, kid_len |-> Len(KidMem[id]),
      x |-> p, y |-> p, d |-> p, n |-> q, e |-> q] :
        ty \in {COSE_KTY_NONE, COSE_KTY_EC2, COSE_KTY_RSA}, c \in EncCurves,
        id \in 1 .. Len(KidMem), p \in Ptrs, q \in Ptrs}

\* C3: a call of cose_key_protected_to_map appends exactly two items, the
\* integer label 1 and then the integer key->algo of that moment; the items
\* are the same for every key with that algo; the map is neither opened nor
\* closed and what it held stays.
C3_ProtectedAppendsAlg ==
    last.op = "protected_to_map" =>
        /\ Appended(1, <<IntItem(1), IntItem(key.algo)>>)
        /\ \A k \in OtherKeys(key) : cose_key_protected_to_map(k, pre[1]) = enc[1]

\* the protected map of an EC2 key with algo ES256 and kid h'01' decodes as
\* {1: -7}
C3_Witness ==
    /\ last.op = "protected_to_map"
    /\ key.kty = COSE_KTY_EC2 /\ key.crv = COSE_EC_CURVE_P256
    /\ key.algo = -7
    /\ key.kid = 1 /\ key.kid_len = 1
    /\ Decode(enc[1].buf) = <<MapItem(1), IntItem(1), IntItem(-7)>>

\* C4: a call of cose_key_unprotected_to_map appends exactly two items, the
\* integer label 4 and then a byte string of exactly kid_len bytes taken from
\* kid; with kid_len = 0 (also when no identifier was ever set) the second
\* item is a zero-length byte string, never left out.
C4_UnprotectedAppendsKid ==
    last.op = "unprotected_to_map" =>
        LET bytes == enc[1].log[Len(enc[1].log)].b
        IN  /\ Appended(1, <<IntItem(4), BstrItem(bytes)>>)
            /\ Len(bytes) = key.kid_len
            /\ key.kid # NULL => bytes = SubSeq(KidMem[key.kid], 1, key.kid_len)
            /\ key.kid_len = 0 => enc[1].log[Len(enc[1].log)] = BstrItem(<<>>)

\* a key on which no identifier was set encodes as {4: h''}
C4_Witness ==
    /\ last.op = "unprotected_to_map"
    /\ key.kid = NULL /\ key.kid_len = 0
    /\ key.kty = COSE_KTY_EC2
    /\ Decode(enc[1].buf) = <<MapItem(1), IntItem(4), BstrItem(<<>>)>>

\* C5: cose_key_set_keys is last-writer-wins: kty, crv, algo, x, y, d are
\* determined by the arguments of the last call alone; on a key that was
\* RSA-typed kty is no longer RSA, and what the two encoders write afterwards
\* does not depend on the n and e the RSA setter left.
C5_SetKeysLastWriterWins ==
    /\ last.op = "set_keys" =>
           /\ key.kty = TableKty(last.curve)
           /\ key.kty # COSE_KTY_RSA
           /\ key.crv = last.curve
           /\ key.algo = last.algo
           /\ key.x = last.x /\ key.y = last.y /\ key.d = last.d
    /\ \A n \in Ptrs, e \in Ptrs :
           /\ cose_key_protected_to_map([key EXCEPT !.n = n, !.e = e], enc[1])
                  = cose_key_protected_to_map(key, enc[1])
           /\ cose_key_unprotected_to_map([key EXCEPT !.n = n, !.e = e], enc[1])
                  = cose_key_unprotected_to_map(key, enc[1])

\* cose_key_set_keys on an RSA-typed key, n and e still in place
C5_Witness ==
    /\ last.op = "set_keys"
    /\ last.was_rsa
    /\ key.kty = COSE_KTY_OCTET
    /\ key.n # NULL /\ key.e # NULL
    /\ MapIsOpen(enc[1])

ZeroKey ==
    [kty |-> COSE_KTY_NONE, algo |-> 0, crv |-> 0, kid |-> NULL, kid_len |-> 0,
     x |-> NULL, y |-> NULL, d |-> NULL, n |-> NULL, e |-> NULL]

\* C6: cose_key_init resets every field to its zero value from any key
\* state, and an encoder call right after it writes the label followed by
\* the integer 0 (protected) or by a zero-length byte string (unprotected).
C6_InitResetsAndEncodes ==
    /\ last.op = "init" => key = ZeroKey
    /\ last.op = "protected_to_map" /\ last.prev = "init" =>
           Appended(1, <<IntItem(1), IntItem(0)>>)
    /\ last.op = "unprotected_to_map" /\ last.prev = "init" =>
           Appended(1, <<IntItem(4), BstrItem(<<>>)>>)

\* the unprotected map written right after an init decodes as {4: h''}
C6_Witness ==
    /\ last.op = "unprotected_to_map"
    /\ last.prev = "init"
    /\ Decode(enc[1].buf) = <<MapItem(1), IntItem(4), BstrItem(<<>>)>>

EncoderSteps ==
    {"protected_label", "protected_to_map", "unprotected_label", "unprotected_to_map"}

\* C8: the encoders only read the key: no step of a call changes a field of
\* it.  So however the emission steps of concurrent calls on one key and
\* distinct maps interleave, each call leaves in its own map exactly what it
\* would have appended running alone, in the same order, and touches no
\* other map.
C8_ConcurrentEncodeReadsOnly ==
    [][/\ last'.op \in EncoderSteps =>
              /\ key' = key
              /\ \A u \in Threads \ {last'.t} : enc'[u] = enc[u]
       /\ \A t \in Threads :
              /\ pc[t] = "protected" /\ pc'[t] = "idle" =>
                     /\ enc'[t] = cose_key_protected_to_map(key, pre[t])
                     /\ enc'[t].log = pre[t].log \o <<IntItem(1), IntItem(key.algo)>>
              /\ pc[t] = "unprotected" /\ pc'[t] = "idle" =>
                     /\ enc'[t] = cose_key_unprotected_to_map(key, pre[t])
                     /\ enc'[t].log = pre[t].log \o
                            <<IntItem(4), BstrItem(KidBytes(key.kid, key.kid_len))>>]_vars

\* caller 1 ended a protected call that began before caller 2 made its
\* first emission and ended after it: caller 2 is still inside its call
C8_Witness ==
    /\ last.op = "protected_to_map" /\ last.t = 1
    /\ pc[2] = "unprotected"
    /\ Len(enc[2].log) = Len(pre[2].log) + 1
    /\ key.algo = -37 /\ key.kid_len = 1
    /\ Decode(enc[1].buf) = <<MapItem(1), IntItem(1), IntItem(-37)>>

====
